---- MODULE Spec2Model ----
(***************************************************************************)
(* VM lifecycle manager of aiclubbackend (src/src/services/docker.service  *)
(* .ts) as a state machine.                                                *)
(*                                                                         *)
(* Every exported async function is an operation in flight: a record in    *)
(* the bag `ops`.  Node runs the code between two awaits atomically, so    *)
(* one action is the effect of one awaited call (a MongoDB query or write, *)
(* a Docker call) together with the synchronous code that follows it up    *)
(* to the next await.  The request's arrival is merged with its first      *)
(* awaited call.  `resp` is the response the last step handed to its       *)
(* caller (NoResp when the step returned nothing).                         *)
(*                                                                         *)
(* MongoDB is taken to be available; Docker calls may fail at any time.    *)
(***************************************************************************)
EXTENDS Integers, Sequences, FiniteSets, Bags, TLC

(* ---------------------------- bounds ----------------------------------- *)
MaxVMs == 1
MaxPortVMs == 3
MaxPortRequests == 5
MaxInflight == 2
MaxTicks == 3
MaxRequests == 4
MaxSessions == 2
MaxTermRequests == 2
MaxPings == 1
MaxOutputs == 1
MaxAdjustRequests == 4
MaxOverVMs == 4
MaxOverRequests == 5
MaxOwnerRequests == 4
PortRange == 2
MaxDeleteVMs == 2
MaxDeleteRequests == 4

(* ------------------------ program constants ---------------------------- *)
baseSSHPort == 30000
maxVMsPerUser == 3
vmCostPerHour == 10
defaultCredits == 100
NoDate == -1

Users == {"u1", "u2"}
Callers == {"u1"}
Admin == "admin"

VARIABLES
    vms,        \* the VM collection: record id -> document
    credits,    \* User.credits per user
    usedPorts,  \* the in-process Set<number> usedPorts
    containers, \* Docker: container id -> "stopped" | "running" | "gone"
    tick,       \* number of clock advances so far
    ops,        \* bag of operations in flight
    resp,       \* response returned by the last step
    nreq,       \* number of requests received so far
    sessions,   \* terminal connections: connection -> its state
    deleted,    \* users the admin has deleted
    creditRequests  \* the CreditRequest collection: request id -> document

vars == <<vms, credits, usedPorts, containers, tick, ops, resp, nreq, sessions,
          deleted, creditRequests>>

(* ------------------------------ clock ---------------------------------- *)
\* The wall clock advances through a fixed sample of intervals: half an
\* hour, ten seconds, eleven hours, and so on again.
TickStep(i) == CASE i % 3 = 0 -> 1800
                 [] i % 3 = 1 -> 10
                 [] OTHER     -> 39600

RECURSIVE TimeAt(_)
TimeAt(i) == IF i = 0 THEN 0 ELSE TimeAt(i - 1) + TickStep(i - 1)

now == TimeAt(tick)

(* --------------------------- responses --------------------------------- *)
NoResp == [op |-> "none", user |-> "none", vm |-> 0, res |-> "none"]
Resp(op, user, vm, res) == [op |-> op, user |-> user, vm |-> vm, res |-> res]

(* ------------------------- operations in flight ------------------------ *)
NoDoc == [ownerId |-> "none", containerId |-> 0, status |-> "none", sshPort |-> 0,
          lastStartedAt |-> NoDate, lastStoppedAt |-> NoDate,
          totalRuntime |-> 0, creditsConsumed |-> 0]

\* kind/pc: the function and the await it is waiting on; user: the caller;
\* vm: the record id (0 while there is none); cid: the container id;
\* doc: the mongoose document as loaded; upd: the same document after the
\* assignments made so far; port, seen, creditsUsed: locals.
NewOp(kind, pc, user, vm, doc) ==
    [kind |-> kind, pc |-> pc, user |-> user, vm |-> vm, doc |-> doc, upd |-> doc,
     cid |-> doc.containerId, port |-> 0, seen |-> {}, creditsUsed |-> 0]

Inflight == BagToSet(ops)
Spawn(o) == ops (+) SetToBag({o})
Finish(o) == ops (-) SetToBag({o})
Replace(o, o2) == (ops (-) SetToBag({o})) (+) SetToBag({o2})

(* ------------------------------ MongoDB -------------------------------- *)
VMIds == 1..Len(vms)

\* (mutant) the lookup by _id alone
FindOneAnyOwner(vmId, userId) ==
    IF vmId \in VMIds THEN vms[vmId] ELSE NoDoc

\* VM.findOne({ _id: vmId, ownerId: userId })
FindOne(vmId, userId) ==
    IF vmId \in VMIds /\ vms[vmId].ownerId = userId THEN vms[vmId] ELSE NoDoc

\* VM.findOne({ containerId }); containerId is unique.
FindByContainer(cid) ==
    IF \E i \in VMIds : vms[i].containerId = cid
    THEN CHOOSE i \in VMIds : vms[i].containerId = cid
    ELSE 0

\* (mutant) a save that writes every path of the document
AllPaths(snap, doc) == DOMAIN doc

\* doc.save() of a loaded document: mongoose writes the paths whose value
\* differs from the loaded one, and leaves the others as stored.
Modified(snap, doc) == {f \in DOMAIN doc : doc[f] # snap[f]}
Save(id, snap, doc) ==
    [vms EXCEPT ![id] = [f \in DOMAIN doc |->
                            IF f \in Modified(snap, doc) THEN doc[f] ELSE vms[id][f]]]

\* (mutant) the collection without the unique index on sshPort
NoUniqueIndex(port) == FALSE

\* sshPort: { unique: true }: an insert fails when any stored document,
\* terminated ones included, carries the same sshPort.
DuplicateKey(port) == \E i \in VMIds : vms[i].sshPort = port

(* ------------------------------- Docker -------------------------------- *)
ContainerIds == 1..Len(containers)
ContainerState(cid) == IF cid \in ContainerIds THEN containers[cid] ELSE "gone"

\* (mutant) every error of the call is ignored
AnyErrorIgnored(code) == code # 204

\* catch (err) { if (err.statusCode !== 304) throw err }
AlreadyInState(code) == code = 304

\* Outcomes of a Docker call on a container: the status and the state it
\* leaves.  Every call can also fail with a daemon error (500).
DockerStart(cid) ==
    {[code |-> 500, state |-> ContainerState(cid)]} \cup
    (CASE ContainerState(cid) = "stopped" -> {[code |-> 204, state |-> "running"]}
       [] ContainerState(cid) = "running" -> {[code |-> 304, state |-> "running"]}
       [] OTHER                           -> {[code |-> 404, state |-> "gone"]})

DockerStop(cid) ==
    {[code |-> 500, state |-> ContainerState(cid)]} \cup
    (CASE ContainerState(cid) = "running" -> {[code |-> 204, state |-> "stopped"]}
       [] ContainerState(cid) = "stopped" -> {[code |-> 304, state |-> "stopped"]}
       [] OTHER                           -> {[code |-> 404, state |-> "gone"]})

DockerRemove(cid) ==
    {[code |-> 500, state |-> ContainerState(cid)]} \cup
    (IF ContainerState(cid) = "gone"
     THEN {[code |-> 404, state |-> "gone"]}
     ELSE {[code |-> 204, state |-> "gone"]})

DockerInspect(cid) ==
    {[code |-> 500, state |-> ContainerState(cid)]} \cup
    (IF ContainerState(cid) = "gone"
     THEN {[code |-> 404, state |-> "gone"]}
     ELSE {[code |-> 200, state |-> ContainerState(cid)]})

SetContainer(cid, state) ==
    IF cid \in ContainerIds THEN [containers EXCEPT ![cid] = state] ELSE containers

(* --------------------------- port allocator ---------------------------- *)
\* while (usedPorts.has(port)) port++
RECURSIVE ScanFrom(_, _)
ScanFrom(port, used) == IF port \in used THEN ScanFrom(port + 1, used) ELSE port

\* VM.find({ status: { $ne: 'terminated' } }) mapped to sshPort
LivePorts == {vms[i].sshPort : i \in {j \in VMIds : vms[j].status # "terminated"}}

\* freePort
FreePort(port) == usedPorts \ {port}

(* ------------------------- terminal connections ------------------------ *)
ConnIds == 1..MaxSessions

\* pc: where the connection handler stands ("idle": no connection yet;
\* "user", "find", "exec", "start": the await it is waiting on; "done": the
\* handlers are registered; "failed": the attach threw).  ws: the channel
\* ("open", "closing" after ws.close(), "closed").  stream: the exec stream
\* ("none", "open", "ended", "errored", "released" after stream.end()).
\* entry: the connection is in the Map `connections`.  pings: ping messages
\* the client sent; pongs, errors, outputs, disconnects: frames of each type
\* the server sent; late: a frame was sent after a `disconnect` frame.
NoSession == [pc |-> "idle", user |-> "none", vm |-> 0, ws |-> "none",
              stream |-> "none", entry |-> FALSE, pings |-> 0, pongs |-> 0, errors |-> 0,
              outputs |-> 0, disconnects |-> 0, late |-> FALSE]

(* ------------------------------- Init ---------------------------------- *)
Init ==
    /\ vms = << >>
    /\ credits = [u \in Users |-> defaultCredits]
    /\ usedPorts = {}
    /\ containers = << >>
    /\ tick = 0
    /\ ops = EmptyBag
    /\ resp = NoResp
    /\ nreq = 0
    /\ sessions = [c \in ConnIds |-> NoSession]
    /\ deleted = {}
    /\ creditRequests = << >>


(* ---------------------------- environment ------------------------------ *)
Tick ==
    /\ tick' = tick + 1
    /\ resp' = NoResp
    /\ UNCHANGED <<vms, credits, usedPorts, containers, ops>>

\* an operation in flight moves on to its next await
Goto(o, o2) == /\ ops' = Replace(o, o2)
               /\ resp' = NoResp

\* an operation in flight returns or throws
Return(o, res) == /\ ops' = Finish(o)
                  /\ resp' = Resp(o.kind, o.user, o.vm, res)

(* ----------------------------- provisionVM ----------------------------- *)
\* VM.find({ ownerId, status: { $in: ['running','stopped','creating'] } })
QuotaCount(u) ==
    Cardinality({i \in VMIds : /\ vms[i].ownerId = u
                               /\ vms[i].status \in {"running", "stopped", "creating"}})

ProvisionQuota(u) ==
    /\ IF QuotaCount(u) >= maxVMsPerUser
       THEN /\ resp' = Resp("provision", u, 0, "QuotaExceeded")
            /\ UNCHANGED ops
       ELSE /\ ops' = Spawn(NewOp("provision", "user", u, 0, NoDoc))
            /\ resp' = NoResp
    /\ UNCHANGED <<vms, credits, usedPorts, containers, tick>>

\* (mutant) the credit check left out
CreditCheckSkipped(balance) == FALSE

\* user.credits < config.credits.vmCostPerHour
InsufficientBalance(balance) == balance < vmCostPerHour

\* User.findById and the credit check
ProvisionUser(o) ==
    /\ o.kind = "provision" /\ o.pc = "user"
    /\ CASE o.user \in deleted -> Return(o, "UserNotFound")
         [] o.user \notin deleted /\ InsufficientBalance(credits[o.user]) ->
               Return(o, "InsufficientCredits")
         [] OTHER -> Goto(o, [o EXCEPT !.pc = "portfind"])
    /\ UNCHANGED <<vms, credits, usedPorts, containers, tick>>

\* getNextAvailablePort: the await of VM.find
ProvisionPortFind(o) ==
    /\ o.kind = "provision" /\ o.pc = "portfind"
    /\ Goto(o, [o EXCEPT !.pc = "portscan", !.seen = LivePorts])
    /\ UNCHANGED <<vms, credits, usedPorts, containers, tick>>

\* getNextAvailablePort: the synchronous rest
ProvisionPortScan(o) ==
    /\ o.kind = "provision" /\ o.pc = "portscan"
    /\ LET used == usedPorts \cup o.seen
           port == ScanFrom(baseSSHPort, used)
       IN /\ usedPorts' = used \cup {port}
          /\ Goto(o, [o EXCEPT !.pc = "create", !.port = port, !.seen = {}])
    /\ UNCHANGED <<vms, credits, containers, tick>>

\* image inspect / pull and docker.createContainer
ProvisionCreate(o) ==
    /\ o.kind = "provision" /\ o.pc = "create"
    /\ \E created \in BOOLEAN :
          IF created
          THEN /\ containers' = Append(containers, "stopped")
               /\ Goto(o, [o EXCEPT !.pc = "insert", !.cid = Len(containers) + 1])
          ELSE /\ Return(o, "RuntimeError")
               /\ UNCHANGED containers
    /\ UNCHANGED <<vms, credits, usedPorts, tick>>

NewVM(o) == [ownerId |-> o.user, containerId |-> o.cid, status |-> "creating",
             sshPort |-> o.port, lastStartedAt |-> NoDate, lastStoppedAt |-> NoDate,
             totalRuntime |-> 0, creditsConsumed |-> 0]

\* the first vm.save(): an insert
ProvisionInsert(o) ==
    /\ o.kind = "provision" /\ o.pc = "insert"
    /\ IF DuplicateKey(o.port)
       THEN /\ Return(o, "DuplicateKey")
            /\ UNCHANGED vms
       ELSE /\ vms' = Append(vms, NewVM(o))
            /\ Goto(o, [o EXCEPT !.pc = "start", !.vm = Len(vms) + 1,
                                 !.doc = NewVM(o), !.upd = NewVM(o)])
    /\ UNCHANGED <<credits, usedPorts, containers, tick>>

\* container.start()
ProvisionStart(o) ==
    /\ o.kind = "provision" /\ o.pc = "start"
    /\ \E r \in DockerStart(o.cid) :
          /\ containers' = SetContainer(o.cid, r.state)
          /\ IF r.code = 204
             THEN Goto(o, [o EXCEPT !.pc = "inspect"])
             ELSE Return(o, "RuntimeError")
    /\ UNCHANGED <<vms, credits, usedPorts, tick>>

\* container.inspect(), then status / ipAddress / lastStartedAt are set
ProvisionInspect(o) ==
    /\ o.kind = "provision" /\ o.pc = "inspect"
    /\ \E r \in DockerInspect(o.cid) :
          IF r.code = 200
          THEN Goto(o, [o EXCEPT !.pc = "save",
                                 !.upd = [o.doc EXCEPT !.status = "running",
                                                       !.lastStartedAt = now]])
          ELSE Return(o, "RuntimeError")
    /\ UNCHANGED <<vms, credits, usedPorts, containers, tick>>

\* the second vm.save()
ProvisionSave(o) ==
    /\ o.kind = "provision" /\ o.pc = "save"
    /\ vms' = Save(o.vm, o.doc, o.upd)
    /\ Return(o, "ok")
    /\ UNCHANGED <<credits, usedPorts, containers, tick>>

(* ------------------------------- startVM ------------------------------- *)
StartFind(u, v) ==
    /\ LET doc == FindOne(v, u)
       IN CASE doc = NoDoc ->
                 /\ resp' = Resp("start", u, v, "NotFound") /\ UNCHANGED ops
            [] doc # NoDoc /\ doc.status \in {"running", "terminated"} ->
                 /\ resp' = Resp("start", u, v, "InvalidState") /\ UNCHANGED ops
            [] OTHER ->
                 /\ ops' = Spawn(NewOp("start", "user", u, v, doc)) /\ resp' = NoResp
    /\ UNCHANGED <<vms, credits, usedPorts, containers, tick>>

StartUser(o) ==
    /\ o.kind = "start" /\ o.pc = "user"
    /\ IF o.user \in deleted \/ InsufficientBalance(credits[o.user])
       THEN Return(o, "InsufficientCredits")
       ELSE Goto(o, [o EXCEPT !.pc = "start"])
    /\ UNCHANGED <<vms, credits, usedPorts, containers, tick>>

\* container.start(); 304 (already started) is ignored
StartStart(o) ==
    /\ o.kind = "start" /\ o.pc = "start"
    /\ \E r \in DockerStart(o.cid) :
          /\ containers' = SetContainer(o.cid, r.state)
          /\ IF r.code = 204 \/ AlreadyInState(r.code)
             THEN Goto(o, [o EXCEPT !.pc = "inspect"])
             ELSE Return(o, "RuntimeError")
    /\ UNCHANGED <<vms, credits, usedPorts, tick>>

StartInspect(o) ==
    /\ o.kind = "start" /\ o.pc = "inspect"
    /\ \E r \in DockerInspect(o.cid) :
          IF r.code = 200
          THEN Goto(o, [o EXCEPT !.pc = "save",
                                 !.upd = [o.doc EXCEPT !.status = "running",
                                                       !.lastStartedAt = now]])
          ELSE Return(o, "RuntimeError")
    /\ UNCHANGED <<vms, credits, usedPorts, containers, tick>>

StartSave(o) ==
    /\ o.kind = "start" /\ o.pc = "save"
    /\ vms' = Save(o.vm, o.doc, o.upd)
    /\ Return(o, "ok")
    /\ UNCHANGED <<credits, usedPorts, containers, tick>>

(* -------------------------------- stopVM ------------------------------- *)
\* Math.ceil(x / y) for naturals
CeilDiv(x, y) == (x + y - 1) \div y

\* Math.floor((Date.now() - lastStartedAt) / 1000); the clock counts seconds
Runtime(doc) == now - doc.lastStartedAt

\* Math.ceil((runtime / 3600) * vmCostPerHour)
CreditsUsed(runtime) == CeilDiv(runtime * vmCostPerHour, 3600)

\* (mutant) stop refused only for a record that is already stopped
StopRefusedIfStopped(status) == status = "stopped"

\* vm.status !== 'running'
StopRefused(status) == status # "running"

StopFind(u, v) ==
    /\ LET doc == FindOne(v, u)
       IN CASE doc = NoDoc ->
                 /\ resp' = Resp("stop", u, v, "NotFound") /\ UNCHANGED ops
            [] doc # NoDoc /\ StopRefused(doc.status) ->
                 /\ resp' = Resp("stop", u, v, "InvalidState") /\ UNCHANGED ops
            [] OTHER ->
                 /\ ops' = Spawn(NewOp("stop", "stop", u, v, doc)) /\ resp' = NoResp
    /\ UNCHANGED <<vms, credits, usedPorts, containers, tick>>

\* container.stop(); 304 (already stopped) is ignored.  Then the runtime is
\* computed; without lastStartedAt nothing is billed and the save follows.
StopStop(o) ==
    /\ o.kind = "stop" /\ o.pc = "stop"
    /\ \E r \in DockerStop(o.cid) :
          /\ containers' = SetContainer(o.cid, r.state)
          /\ IF r.code = 204 \/ AlreadyInState(r.code)
             THEN IF o.doc.lastStartedAt # NoDate
                  THEN Goto(o, [o EXCEPT
                          !.pc = "bill",
                          !.creditsUsed = CreditsUsed(Runtime(o.doc)),
                          !.upd = [o.doc EXCEPT
                             !.totalRuntime = @ + Runtime(o.doc),
                             !.creditsConsumed = @ + CreditsUsed(Runtime(o.doc))]])
                  ELSE Goto(o, [o EXCEPT
                          !.pc = "save",
                          !.upd = [o.doc EXCEPT !.status = "stopped",
                                                !.lastStoppedAt = now]])
             ELSE Return(o, "RuntimeError")
    /\ UNCHANGED <<vms, credits, usedPorts, tick>>

\* User.findByIdAndUpdate(userId, { $inc: { credits: -creditsUsed } })
Debit(balance, creditsUsed) == balance - creditsUsed

StopBill(o) ==
    /\ o.kind = "stop" /\ o.pc = "bill"
    /\ credits' = IF o.user \in deleted
                  THEN credits
                  ELSE [credits EXCEPT ![o.user] = Debit(@, o.creditsUsed)]
    /\ Goto(o, [o EXCEPT !.pc = "save",
                         !.upd = [o.upd EXCEPT !.status = "stopped",
                                               !.lastStoppedAt = now]])
    /\ UNCHANGED <<vms, usedPorts, containers, tick>>

StopSave(o) ==
    /\ o.kind = "stop" /\ o.pc = "save"
    /\ vms' = Save(o.vm, o.doc, o.upd)
    /\ Return(o, "ok")
    /\ UNCHANGED <<credits, usedPorts, containers, tick>>

(* ------------------------------ terminateVM ---------------------------- *)
TerminateFind(u, v) ==
    /\ LET doc == FindOne(v, u)
       IN IF doc = NoDoc
          THEN /\ resp' = Resp("terminate", u, v, "NotFound") /\ UNCHANGED ops
          ELSE /\ ops' = Spawn(NewOp("terminate", "inspect", u, v, doc))
               /\ resp' = NoResp
    /\ UNCHANGED <<vms, credits, usedPorts, containers, tick>>

\* what follows the try/catch: freePort, status = 'terminated', save is awaited
TerminateCleanup(o) ==
    /\ usedPorts' = FreePort(o.doc.sshPort)
    /\ Goto(o, [o EXCEPT !.pc = "save", !.upd = [o.doc EXCEPT !.status = "terminated"]])

TerminateInspect(o) ==
    /\ o.kind = "terminate" /\ o.pc = "inspect"
    /\ \E r \in DockerInspect(o.cid) :
          CASE r.code = 200 /\ r.state = "running" ->
                 /\ Goto(o, [o EXCEPT !.pc = "stop"]) /\ UNCHANGED usedPorts
            [] r.code = 200 /\ r.state # "running" ->
                 /\ Goto(o, [o EXCEPT !.pc = "remove"]) /\ UNCHANGED usedPorts
            [] OTHER -> TerminateCleanup(o)
    /\ UNCHANGED <<vms, credits, containers, tick>>

TerminateStop(o) ==
    /\ o.kind = "terminate" /\ o.pc = "stop"
    /\ \E r \in DockerStop(o.cid) :
          /\ containers' = SetContainer(o.cid, r.state)
          /\ IF r.code = 204
             THEN /\ Goto(o, [o EXCEPT !.pc = "remove"]) /\ UNCHANGED usedPorts
             ELSE TerminateCleanup(o)
    /\ UNCHANGED <<vms, credits, tick>>

TerminateRemove(o) ==
    /\ o.kind = "terminate" /\ o.pc = "remove"
    /\ \E r \in DockerRemove(o.cid) :
          /\ containers' = SetContainer(o.cid, r.state)
          /\ TerminateCleanup(o)
    /\ UNCHANGED <<vms, credits, tick>>

TerminateSave(o) ==
    /\ o.kind = "terminate" /\ o.pc = "save"
    /\ vms' = Save(o.vm, o.doc, o.upd)
    /\ Return(o, "ok")
    /\ UNCHANGED <<credits, usedPorts, containers, tick>>

(* ------------------------------ getVMStatus ---------------------------- *)
StatusFind(u, v) ==
    /\ LET doc == FindOne(v, u)
       IN IF doc = NoDoc
          THEN /\ resp' = Resp("status", u, v, "NotFound") /\ UNCHANGED ops
          ELSE /\ ops' = Spawn(NewOp("status", "inspect", u, v, doc))
               /\ resp' = NoResp
    /\ UNCHANGED <<vms, credits, usedPorts, containers, tick>>

\* container.inspect(): the status is synced to the container's, or set to
\* 'error' when the inspect throws; a terminated document is returned as is.
StatusInspect(o) ==
    /\ o.kind = "status" /\ o.pc = "inspect"
    /\ \E r \in DockerInspect(o.cid) :
          LET actualStatus == IF r.state = "running" THEN "running" ELSE "stopped"
          IN CASE r.code = 200 /\ o.doc.status # "terminated"
                               /\ o.doc.status # actualStatus ->
                    Goto(o, [o EXCEPT !.pc = "save",
                                      !.upd = [o.doc EXCEPT !.status = actualStatus]])
               [] r.code # 200 /\ o.doc.status # "terminated" ->
                    Goto(o, [o EXCEPT !.pc = "save",
                                      !.upd = [o.doc EXCEPT !.status = "error"]])
               [] OTHER -> Return(o, "ok")
    /\ UNCHANGED <<vms, credits, usedPorts, containers, tick>>

StatusSave(o) ==
    /\ o.kind = "status" /\ o.pc = "save"
    /\ vms' = Save(o.vm, o.doc, o.upd)
    /\ Return(o, "ok")
    /\ UNCHANGED <<credits, usedPorts, containers, tick>>

(* --------------------------- forceStopContainer ------------------------ *)
AdminOp(kind, pc, cid) == [NewOp(kind, pc, Admin, 0, NoDoc) EXCEPT !.cid = cid]

\* container.stop({ t: 0 }): any error, 304 included, is thrown
ForceStopStop(cid) ==
    /\ \E r \in DockerStop(cid) :
          /\ containers' = SetContainer(cid, r.state)
          /\ IF r.code = 204
             THEN /\ ops' = Spawn(AdminOp("forceStop", "find", cid)) /\ resp' = NoResp
             ELSE /\ resp' = Resp("forceStop", Admin, 0, "RuntimeError") /\ UNCHANGED ops
    /\ UNCHANGED <<vms, credits, usedPorts, tick>>

\* VM.findOne({ containerId })
ForceStopFind(o) ==
    /\ o.kind = "forceStop" /\ o.pc = "find"
    /\ LET id == FindByContainer(o.cid)
       IN IF id = 0
          THEN Return(o, "ok")
          ELSE Goto(o, [o EXCEPT !.pc = "save", !.vm = id, !.doc = vms[id],
                                 !.upd = [vms[id] EXCEPT !.status = "stopped",
                                                         !.lastStoppedAt = now]])
    /\ UNCHANGED <<vms, credits, usedPorts, containers, tick>>

ForceStopSave(o) ==
    /\ o.kind = "forceStop" /\ o.pc = "save"
    /\ vms' = Save(o.vm, o.doc, o.upd)
    /\ Return(o, "ok")
    /\ UNCHANGED <<credits, usedPorts, containers, tick>>

(* -------------------------- forceRemoveContainer ----------------------- *)
\* container.remove({ force: true })
ForceRemoveRemove(cid) ==
    /\ \E r \in DockerRemove(cid) :
          /\ containers' = SetContainer(cid, r.state)
          /\ IF r.code = 204
             THEN /\ ops' = Spawn(AdminOp("forceRemove", "find", cid)) /\ resp' = NoResp
             ELSE /\ resp' = Resp("forceRemove", Admin, 0, "RuntimeError") /\ UNCHANGED ops
    /\ UNCHANGED <<vms, credits, usedPorts, tick>>

\* VM.findOne({ containerId }), then freePort and status = 'terminated'
ForceRemoveFind(o) ==
    /\ o.kind = "forceRemove" /\ o.pc = "find"
    /\ LET id == FindByContainer(o.cid)
       IN IF id = 0
          THEN /\ Return(o, "ok") /\ UNCHANGED usedPorts
          ELSE /\ usedPorts' = FreePort(vms[id].sshPort)
               /\ Goto(o, [o EXCEPT !.pc = "save", !.vm = id, !.doc = vms[id],
                                    !.upd = [vms[id] EXCEPT !.status = "terminated"]])
    /\ UNCHANGED <<vms, credits, containers, tick>>

ForceRemoveSave(o) ==
    /\ o.kind = "forceRemove" /\ o.pc = "save"
    /\ vms' = Save(o.vm, o.doc, o.upd)
    /\ Return(o, "ok")
    /\ UNCHANGED <<credits, usedPorts, containers, tick>>

(* ------------------------ terminal WebSocket server -------------------- *)
\* what a terminal step leaves alone
TerminalOnly == /\ resp' = NoResp
                /\ UNCHANGED <<vms, credits, usedPorts, containers, tick, ops>>

\* container.exec() / exec.start(): possible only on a running container
DockerExec(cid) ==
    {[code |-> 500, state |-> ContainerState(cid)]} \cup
    (CASE ContainerState(cid) = "running" -> {[code |-> 201, state |-> "running"]}
       [] ContainerState(cid) = "stopped" -> {[code |-> 409, state |-> "stopped"]}
       [] OTHER                           -> {[code |-> 404, state |-> "gone"]})

\* wss.on('connection'): the channel is open; token and vmId are present
\* and valid, and User.findById is awaited.
TermConnect(c, u, v) ==
    /\ sessions[c].pc = "idle"
    /\ sessions' = [sessions EXCEPT ![c] = [NoSession EXCEPT !.pc = "user", !.user = u,
                                                             !.vm = v, !.ws = "open"]]
    /\ TerminalOnly

\* User.findById answers (users are never removed here); connections.set;
\* attachToVM is called and awaits VM.findOne.
TermUser(c) ==
    /\ sessions[c].pc = "user"
    /\ sessions' = [sessions EXCEPT ![c].pc = "find", ![c].entry = TRUE]
    /\ TerminalOnly

\* ws.readyState === WebSocket.OPEN
ChannelOpen(s) == s.ws = "open"

\* `late` once one more frame has been sent
Late(s) == s.late \/ s.disconnects > 0

\* (mutant) ws.close() left out
CloseIgnored(ws) == ws

\* ws.close(): an open channel starts its closing handshake
CloseChannel(ws) == IF ws = "open" THEN "closing" ELSE ws

\* the catch block: an error frame (ws.send on a channel that is no longer
\* open sends nothing), ws.close(1011), connections.delete
AttachFailed(s) ==
    [s EXCEPT !.pc = "failed",
              !.errors = IF ChannelOpen(s) THEN @ + 1 ELSE @,
              !.late = IF ChannelOpen(s) THEN Late(s) ELSE @,
              !.ws = CloseChannel(@),
              !.entry = FALSE]

\* (mutant) attachToVM refusing only a record that does not exist
AttachRefusedIfMissing(doc) == doc = NoDoc

\* attachToVM: !vm, or vm.status !== 'running'
AttachRefused(doc) == doc = NoDoc \/ doc.status # "running"

\* attachToVM: VM.findOne and the checks; container.exec is awaited
TermFind(c) ==
    /\ sessions[c].pc = "find"
    /\ LET s == sessions[c]
           doc == FindOne(s.vm, s.user)
       IN sessions' = [sessions EXCEPT ![c] = IF AttachRefused(doc)
                                              THEN AttachFailed(s)
                                              ELSE [s EXCEPT !.pc = "exec"]]
    /\ TerminalOnly

\* attachToVM: container.exec()
TermExec(c) ==
    /\ sessions[c].pc = "exec"
    /\ LET s == sessions[c]
       IN \E r \in DockerExec(vms[s.vm].containerId) :
             sessions' = [sessions EXCEPT ![c] = IF r.code = 201
                                                 THEN [s EXCEPT !.pc = "start"]
                                                 ELSE AttachFailed(s)]
    /\ TerminalOnly

\* attachToVM: exec.start(); then the stream is kept, the stream and channel
\* handlers are registered and the `connected` frame is sent
TermStart(c) ==
    /\ sessions[c].pc = "start"
    /\ LET s == sessions[c]
       IN \E r \in DockerExec(vms[s.vm].containerId) :
             sessions' = [sessions EXCEPT ![c] = IF r.code = 201
                                                 THEN [s EXCEPT !.pc = "done",
                                                                !.stream = "open"]
                                                 ELSE AttachFailed(s)]
    /\ TerminalOnly

\* ws.on('close'), once it is registered: stream.end() and connections.delete
CloseHandler(s) ==
    IF s.pc = "done"
    THEN [s EXCEPT !.stream = IF @ = "open" THEN "released" ELSE @, !.entry = FALSE]
    ELSE s

\* the client closes the channel: the 'close' event
ClientClose(c) ==
    /\ sessions[c].ws = "open"
    /\ sessions' = [sessions EXCEPT ![c] = CloseHandler([sessions[c] EXCEPT !.ws = "closed"])]
    /\ TerminalOnly

\* a close the server began completes: the 'close' event
WsClosed(c) ==
    /\ sessions[c].ws = "closing"
    /\ sessions' = [sessions EXCEPT ![c] = CloseHandler([sessions[c] EXCEPT !.ws = "closed"])]
    /\ TerminalOnly

\* the client sends { type: 'ping' }, which it still can while a close the
\* server began is not completed; ws.on('message'), once it is registered,
\* answers with a pong, which ws.send delivers on an open channel only
ClientPing(c) ==
    /\ sessions[c].ws \in {"open", "closing"}
    /\ LET s == sessions[c]
           answered == s.pc = "done" /\ ChannelOpen(s)
       IN sessions' = [sessions EXCEPT ![c].pings = @ + 1,
                                       ![c].pongs = IF answered THEN @ + 1 ELSE @,
                                       ![c].late = IF answered THEN Late(s) ELSE @]
    /\ TerminalOnly

\* stream.on('data'): an `output` frame on an open channel
StreamData(c) ==
    /\ sessions[c].stream = "open"
    /\ LET s == sessions[c]
       IN sessions' = [sessions EXCEPT ![c].outputs = IF ChannelOpen(s) THEN @ + 1 ELSE @,
                                       ![c].late = IF ChannelOpen(s) THEN Late(s) ELSE @]
    /\ TerminalOnly

\* stream.on('end'): a `disconnect` frame and ws.close(1000) on an open channel
StreamEnd(c) ==
    /\ sessions[c].stream = "open"
    /\ LET s == sessions[c]
       IN sessions' = [sessions EXCEPT
                         ![c].stream = "ended",
                         ![c].disconnects = IF ChannelOpen(s) THEN @ + 1 ELSE @,
                         ![c].late = IF ChannelOpen(s) THEN Late(s) ELSE @,
                         ![c].ws = IF ChannelOpen(s) THEN CloseChannel(@) ELSE @]
    /\ TerminalOnly

\* stream.on('error'): an error frame on an open channel, and nothing else
StreamError(c) ==
    /\ sessions[c].stream = "open"
    /\ LET s == sessions[c]
       IN sessions' = [sessions EXCEPT ![c].stream = "errored",
                                       ![c].errors = IF ChannelOpen(s) THEN @ + 1 ELSE @,
                                       ![c].late = IF ChannelOpen(s) THEN Late(s) ELSE @]
    /\ TerminalOnly

\* (mutant) any channel that is no longer open counts as closed
ChannelNotOpen(s) == s.ws # "open"

\* conn.ws.readyState === WebSocket.CLOSED
ChannelClosed(s) == s.ws = "closed"

\* setInterval: entries whose channel is closed are deleted
TermSweep ==
    /\ \E c \in ConnIds : sessions[c].entry /\ ChannelClosed(sessions[c])
    /\ sessions' = [c \in ConnIds |->
                      IF ChannelClosed(sessions[c]) THEN [sessions[c] EXCEPT !.entry = FALSE]
                                                    ELSE sessions[c]]
    /\ TerminalOnly

(* ------------------------------- execInVM ------------------------------ *)
\* VM.findOne, then the status check
ExecFind(u, v) ==
    /\ LET doc == FindOne(v, u)
       IN CASE doc = NoDoc ->
                 /\ resp' = Resp("exec", u, v, "NotFound") /\ UNCHANGED ops
            [] doc # NoDoc /\ doc.status # "running" ->
                 /\ resp' = Resp("exec", u, v, "InvalidState") /\ UNCHANGED ops
            [] OTHER ->
                 /\ ops' = Spawn(NewOp("exec", "exec", u, v, doc)) /\ resp' = NoResp
    /\ UNCHANGED <<vms, credits, usedPorts, containers, tick>>

\* container.exec() and exec.start(), then the output is collected
ExecExec(o) ==
    /\ o.kind = "exec" /\ o.pc = "exec"
    /\ \E r \in DockerExec(o.cid) :
          IF r.code = 201 THEN Return(o, "ok") ELSE Return(o, "RuntimeError")
    /\ UNCHANGED <<vms, credits, usedPorts, containers, tick>>

(* ----------------------- DELETE /api/admin/users/:id ------------------- *)
\* the next iteration of `for (const vm of vms)`, or the end of the loop
LoopOver(o, rest) ==
    IF rest = {}
    THEN [o EXCEPT !.pc = "user", !.seen = {}]
    ELSE LET v == CHOOSE m \in rest : \A x \in rest : m <= x
         IN [o EXCEPT !.pc = "find", !.vm = v, !.seen = rest \ {v}]

\* VM.find({ ownerId: userId }); the loop then calls terminateVM for the
\* first record, which awaits its findOne
DeleteUserFind(u) ==
    /\ ops' = Spawn(LoopOver(NewOp("deleteUser", "find", u, 0, NoDoc),
                             {v \in VMIds : vms[v].ownerId = u}))
    /\ resp' = NoResp
    /\ UNCHANGED <<vms, credits, usedPorts, containers, tick, deleted>>

\* terminateVM: VM.findOne; 'VM not found' is caught by the loop
DeleteUserVMFind(o) ==
    /\ o.kind = "deleteUser" /\ o.pc = "find"
    /\ LET doc == FindOne(o.vm, o.user)
       IN IF doc = NoDoc
          THEN Goto(o, LoopOver(o, o.seen))
          ELSE Goto(o, [o EXCEPT !.pc = "inspect", !.doc = doc, !.upd = doc,
                                 !.cid = doc.containerId])
    /\ UNCHANGED <<vms, credits, usedPorts, containers, tick, deleted>>

\* terminateVM after its try/catch: freePort, status = 'terminated', save
DeleteUserCleanup(o) ==
    /\ usedPorts' = FreePort(o.doc.sshPort)
    /\ Goto(o, [o EXCEPT !.pc = "save", !.upd = [o.doc EXCEPT !.status = "terminated"]])

DeleteUserInspect(o) ==
    /\ o.kind = "deleteUser" /\ o.pc = "inspect"
    /\ \E r \in DockerInspect(o.cid) :
          CASE r.code = 200 /\ r.state = "running" ->
                 /\ Goto(o, [o EXCEPT !.pc = "stop"]) /\ UNCHANGED usedPorts
            [] r.code = 200 /\ r.state # "running" ->
                 /\ Goto(o, [o EXCEPT !.pc = "remove"]) /\ UNCHANGED usedPorts
            [] OTHER -> DeleteUserCleanup(o)
    /\ UNCHANGED <<vms, credits, containers, tick, deleted>>

DeleteUserStop(o) ==
    /\ o.kind = "deleteUser" /\ o.pc = "stop"
    /\ \E r \in DockerStop(o.cid) :
          /\ containers' = SetContainer(o.cid, r.state)
          /\ IF r.code = 204
             THEN /\ Goto(o, [o EXCEPT !.pc = "remove"]) /\ UNCHANGED usedPorts
             ELSE DeleteUserCleanup(o)
    /\ UNCHANGED <<vms, credits, tick, deleted>>

DeleteUserRemove(o) ==
    /\ o.kind = "deleteUser" /\ o.pc = "remove"
    /\ \E r \in DockerRemove(o.cid) :
          /\ containers' = SetContainer(o.cid, r.state)
          /\ DeleteUserCleanup(o)
    /\ UNCHANGED <<vms, credits, tick, deleted>>

\* terminateVM's vm.save() returns and the loop goes on
DeleteUserSave(o) ==
    /\ o.kind = "deleteUser" /\ o.pc = "save"
    /\ vms' = Save(o.vm, o.doc, o.upd)
    /\ Goto(o, LoopOver(o, o.seen))
    /\ UNCHANGED <<credits, usedPorts, containers, tick, deleted>>

\* User.findByIdAndDelete(userId)
DeleteUserDelete(o) ==
    /\ o.kind = "deleteUser" /\ o.pc = "user"
    /\ deleted' = deleted \cup {o.user}
    /\ Return(o, "ok")
    /\ UNCHANGED <<vms, credits, usedPorts, containers, tick>>

(* ------------------- PATCH /api/admin/users/:id/credits ---------------- *)
\* the amounts and operations an admin sends
AdjustAmounts == {50, 150}
AdjustOperations == {"add", "remove"}

\* { $inc: { credits: amount } } or { $inc: { credits: -amount } }
Adjusted(balance, amount, operation) ==
    IF operation = "add" THEN balance + amount ELSE balance - amount

\* User.findByIdAndUpdate(id, update, { new: true }); when the new balance
\* is negative a second update is awaited
AdjustUpdate(u, amount, operation) ==
    /\ IF u \in deleted
       THEN /\ resp' = Resp("adjust", u, 0, "NotFound")
            /\ UNCHANGED <<credits, ops>>
       ELSE /\ credits' = [credits EXCEPT ![u] = Adjusted(@, amount, operation)]
            /\ IF credits'[u] < 0
               THEN /\ ops' = Spawn(NewOp("adjust", "clamp", u, 0, NoDoc))
                    /\ resp' = NoResp
               ELSE /\ resp' = Resp("adjust", u, 0, "ok")
                    /\ UNCHANGED ops
    /\ UNCHANGED <<vms, usedPorts, containers, tick>>

\* User.findByIdAndUpdate(id, { credits: 0 })
AdjustClamp(o) ==
    /\ o.kind = "adjust" /\ o.pc = "clamp"
    /\ credits' = IF o.user \in deleted THEN credits ELSE [credits EXCEPT ![o.user] = 0]
    /\ Return(o, "ok")
    /\ UNCHANGED <<vms, usedPorts, containers, tick>>

(* ------------------------- the requests that arrive -------------------- *)
\* A request is accepted while fewer than MaxInflight operations are in
\* flight and fewer than MaxRequests requests have been received.
Request(A) ==
    /\ BagCardinality(ops) < MaxInflight
    /\ nreq < MaxRequests
    /\ A
    /\ nreq' = nreq + 1
    /\ UNCHANGED <<sessions, deleted, creditRequests>>

\* A step of an operation in flight, or of the environment.
Step(A) == A /\ UNCHANGED <<nreq, sessions, deleted, creditRequests>>

Targets == 1..MaxVMs

Next ==
    \/ tick < MaxTicks /\ Step(Tick)
    \/ \E u \in Callers : Request(ProvisionQuota(u))
    \/ \E o \in Inflight : Step(ProvisionUser(o))
    \/ \E o \in Inflight : Step(ProvisionPortFind(o))
    \/ \E o \in Inflight : Step(ProvisionPortScan(o))
    \/ \E o \in Inflight : Len(containers) < MaxVMs /\ Step(ProvisionCreate(o))
    \/ \E o \in Inflight : Step(ProvisionInsert(o))
    \/ \E o \in Inflight : Step(ProvisionStart(o))
    \/ \E o \in Inflight : Step(ProvisionInspect(o))
    \/ \E o \in Inflight : Step(ProvisionSave(o))
    \/ \E u \in Callers, v \in Targets : Request(StartFind(u, v))
    \/ \E o \in Inflight : Step(StartUser(o))
    \/ \E o \in Inflight : Step(StartStart(o))
    \/ \E o \in Inflight : Step(StartInspect(o))
    \/ \E o \in Inflight : Step(StartSave(o))
    \/ \E u \in Callers, v \in Targets : Request(StopFind(u, v))
    \/ \E o \in Inflight : Step(StopStop(o))
    \/ \E o \in Inflight : Step(StopBill(o))
    \/ \E o \in Inflight : Step(StopSave(o))
    \/ \E u \in Callers, v \in Targets : Request(TerminateFind(u, v))
    \/ \E o \in Inflight : Step(TerminateInspect(o))
    \/ \E o \in Inflight : Step(TerminateStop(o))
    \/ \E o \in Inflight : Step(TerminateRemove(o))
    \/ \E o \in Inflight : Step(TerminateSave(o))
    \/ \E u \in Callers, v \in Targets : Request(StatusFind(u, v))
    \/ \E o \in Inflight : Step(StatusInspect(o))
    \/ \E o \in Inflight : Step(StatusSave(o))
    \/ \E cid \in Targets : Request(ForceStopStop(cid))
    \/ \E o \in Inflight : Step(ForceStopFind(o))
    \/ \E o \in Inflight : Step(ForceStopSave(o))
    \/ \E cid \in Targets : Request(ForceRemoveRemove(cid))
    \/ \E o \in Inflight : Step(ForceRemoveFind(o))
    \/ \E o \in Inflight : Step(ForceRemoveSave(o))

Spec == Init /\ [][Next]_vars

\* Provisioning, termination and forced removal alone, on up to MaxPortVMs
\* containers, with the clock standing still.
PortRequest(A) ==
    /\ BagCardinality(ops) < MaxInflight
    /\ nreq < MaxPortRequests
    /\ A
    /\ nreq' = nreq + 1
    /\ UNCHANGED <<sessions, deleted, creditRequests>>

PortTargets == 1..MaxPortVMs

NextPorts ==
    \/ \E u \in Callers : PortRequest(ProvisionQuota(u))
    \/ \E o \in Inflight : Step(ProvisionUser(o))
    \/ \E o \in Inflight : Step(ProvisionPortFind(o))
    \/ \E o \in Inflight : Step(ProvisionPortScan(o))
    \/ \E o \in Inflight : Len(containers) < MaxPortVMs /\ Step(ProvisionCreate(o))
    \/ \E o \in Inflight : Step(ProvisionInsert(o))
    \/ \E o \in Inflight : Step(ProvisionStart(o))
    \/ \E o \in Inflight : Step(ProvisionInspect(o))
    \/ \E o \in Inflight : Step(ProvisionSave(o))
    \/ \E u \in Callers, v \in PortTargets : PortRequest(TerminateFind(u, v))
    \/ \E o \in Inflight : Step(TerminateInspect(o))
    \/ \E o \in Inflight : Step(TerminateStop(o))
    \/ \E o \in Inflight : Step(TerminateRemove(o))
    \/ \E o \in Inflight : Step(TerminateSave(o))
    \/ \E cid \in PortTargets : PortRequest(ForceRemoveRemove(cid))
    \/ \E o \in Inflight : Step(ForceRemoveFind(o))
    \/ \E o \in Inflight : Step(ForceRemoveSave(o))

SpecPorts == Init /\ [][NextPorts]_vars

\* Provisioning and status queries alone, on up to MaxPortVMs containers.
NextQuota ==
    \/ \E u \in Callers : PortRequest(ProvisionQuota(u))
    \/ \E o \in Inflight : Step(ProvisionUser(o))
    \/ \E o \in Inflight : Step(ProvisionPortFind(o))
    \/ \E o \in Inflight : Step(ProvisionPortScan(o))
    \/ \E o \in Inflight : Len(containers) < MaxPortVMs /\ Step(ProvisionCreate(o))
    \/ \E o \in Inflight : Step(ProvisionInsert(o))
    \/ \E o \in Inflight : Step(ProvisionStart(o))
    \/ \E o \in Inflight : Step(ProvisionInspect(o))
    \/ \E o \in Inflight : Step(ProvisionSave(o))
    \/ \E u \in Callers, v \in PortTargets : PortRequest(StatusFind(u, v))
    \/ \E o \in Inflight : Step(StatusInspect(o))
    \/ \E o \in Inflight : Step(StatusSave(o))

SpecQuota == Init /\ [][NextQuota]_vars

\* Terminal connections to one VM that is provisioned, terminated or
\* force-removed meanwhile, with the clock standing still.
TermRequest(A) ==
    /\ BagCardinality(ops) < MaxInflight
    /\ nreq < MaxTermRequests
    /\ A
    /\ nreq' = nreq + 1
    /\ UNCHANGED <<sessions, deleted, creditRequests>>

\* A step of a connection handler, of a client or of a stream.
TermStep(A) == A /\ UNCHANGED <<nreq, deleted, creditRequests>>

NextTerm ==
    \/ \E u \in Callers : TermRequest(ProvisionQuota(u))
    \/ \E o \in Inflight : Step(ProvisionUser(o))
    \/ \E o \in Inflight : Step(ProvisionPortFind(o))
    \/ \E o \in Inflight : Step(ProvisionPortScan(o))
    \/ \E o \in Inflight : Len(containers) < MaxVMs /\ Step(ProvisionCreate(o))
    \/ \E o \in Inflight : Step(ProvisionInsert(o))
    \/ \E o \in Inflight : Step(ProvisionStart(o))
    \/ \E o \in Inflight : Step(ProvisionInspect(o))
    \/ \E o \in Inflight : Step(ProvisionSave(o))
    \/ \E u \in Callers, v \in Targets : TermRequest(TerminateFind(u, v))
    \/ \E o \in Inflight : Step(TerminateInspect(o))
    \/ \E o \in Inflight : Step(TerminateStop(o))
    \/ \E o \in Inflight : Step(TerminateRemove(o))
    \/ \E o \in Inflight : Step(TerminateSave(o))
    \/ \E cid \in Targets : TermRequest(ForceRemoveRemove(cid))
    \/ \E o \in Inflight : Step(ForceRemoveFind(o))
    \/ \E o \in Inflight : Step(ForceRemoveSave(o))
    \/ \E c \in ConnIds, u \in Users, v \in Targets : TermStep(TermConnect(c, u, v))
    \/ \E c \in ConnIds : TermStep(TermUser(c))
    \/ \E c \in ConnIds : TermStep(TermFind(c))
    \/ \E c \in ConnIds : TermStep(TermExec(c))
    \/ \E c \in ConnIds : TermStep(TermStart(c))
    \/ \E c \in ConnIds : TermStep(ClientClose(c))
    \/ \E c \in ConnIds : TermStep(WsClosed(c))
    \/ \E c \in ConnIds : sessions[c].pings < MaxPings /\ TermStep(ClientPing(c))
    \/ \E c \in ConnIds : sessions[c].outputs < MaxOutputs /\ TermStep(StreamData(c))
    \/ \E c \in ConnIds : TermStep(StreamEnd(c))
    \/ \E c \in ConnIds : TermStep(StreamError(c))
    \/ TermStep(TermSweep)

SpecTerm == Init /\ [][NextTerm]_vars

\* Requests of the owner and of another user on one VM, and one terminal
\* connection, with the clock standing still.
OwnerRequest(A) ==
    /\ BagCardinality(ops) < MaxInflight
    /\ nreq < MaxOwnerRequests
    /\ A
    /\ nreq' = nreq + 1
    /\ UNCHANGED <<sessions, deleted, creditRequests>>

NextOwner ==
    \/ \E u \in Callers : OwnerRequest(ProvisionQuota(u))
    \/ \E o \in Inflight : Step(ProvisionUser(o))
    \/ \E o \in Inflight : Step(ProvisionPortFind(o))
    \/ \E o \in Inflight : Step(ProvisionPortScan(o))
    \/ \E o \in Inflight : Len(containers) < MaxVMs /\ Step(ProvisionCreate(o))
    \/ \E o \in Inflight : Step(ProvisionInsert(o))
    \/ \E o \in Inflight : Step(ProvisionStart(o))
    \/ \E o \in Inflight : Step(ProvisionInspect(o))
    \/ \E o \in Inflight : Step(ProvisionSave(o))
    \/ \E u \in Users, v \in Targets : OwnerRequest(StartFind(u, v))
    \/ \E o \in Inflight : Step(StartUser(o))
    \/ \E o \in Inflight : Step(StartStart(o))
    \/ \E o \in Inflight : Step(StartInspect(o))
    \/ \E o \in Inflight : Step(StartSave(o))
    \/ \E u \in Users, v \in Targets : OwnerRequest(StopFind(u, v))
    \/ \E o \in Inflight : Step(StopStop(o))
    \/ \E o \in Inflight : Step(StopBill(o))
    \/ \E o \in Inflight : Step(StopSave(o))
    \/ \E u \in Users, v \in Targets : OwnerRequest(TerminateFind(u, v))
    \/ \E o \in Inflight : Step(TerminateInspect(o))
    \/ \E o \in Inflight : Step(TerminateStop(o))
    \/ \E o \in Inflight : Step(TerminateRemove(o))
    \/ \E o \in Inflight : Step(TerminateSave(o))
    \/ \E u \in Users, v \in Targets : OwnerRequest(StatusFind(u, v))
    \/ \E o \in Inflight : Step(StatusInspect(o))
    \/ \E o \in Inflight : Step(StatusSave(o))
    \/ \E u \in Users, v \in Targets : OwnerRequest(ExecFind(u, v))
    \/ \E o \in Inflight : Step(ExecExec(o))
    \/ \E u \in Users, v \in Targets : TermStep(TermConnect(1, u, v))
    \/ TermStep(TermUser(1))
    \/ TermStep(TermFind(1))
    \/ TermStep(TermExec(1))
    \/ TermStep(TermStart(1))
    \/ TermStep(WsClosed(1))

SpecOwner == Init /\ [][NextOwner]_vars

\* The same with the sweep's timer firing again and again.
SpecTermLive == Init /\ [][NextTerm]_vars /\ WF_vars(TermStep(TermSweep))

\* Provisioning beside the admin's deletion of the user, on up to
\* MaxDeleteVMs containers, with the clock standing still.
DeleteRequest(A) ==
    /\ BagCardinality(ops) < MaxInflight
    /\ nreq < MaxDeleteRequests
    /\ A
    /\ nreq' = nreq + 1
    /\ UNCHANGED <<sessions, creditRequests>>

\* A step of the deletion.
DeleteStep(A) == A /\ UNCHANGED <<nreq, sessions, creditRequests>>

NextDelete ==
    \/ \E u \in Callers : DeleteRequest(ProvisionQuota(u) /\ UNCHANGED deleted)
    \/ \E o \in Inflight : Step(ProvisionUser(o))
    \/ \E o \in Inflight : Step(ProvisionPortFind(o))
    \/ \E o \in Inflight : Step(ProvisionPortScan(o))
    \/ \E o \in Inflight : Len(containers) < MaxDeleteVMs /\ Step(ProvisionCreate(o))
    \/ \E o \in Inflight : Step(ProvisionInsert(o))
    \/ \E o \in Inflight : Step(ProvisionStart(o))
    \/ \E o \in Inflight : Step(ProvisionInspect(o))
    \/ \E o \in Inflight : Step(ProvisionSave(o))
    \/ \E u \in Callers : DeleteRequest(DeleteUserFind(u))
    \/ \E o \in Inflight : DeleteStep(DeleteUserVMFind(o))
    \/ \E o \in Inflight : DeleteStep(DeleteUserInspect(o))
    \/ \E o \in Inflight : DeleteStep(DeleteUserStop(o))
    \/ \E o \in Inflight : DeleteStep(DeleteUserRemove(o))
    \/ \E o \in Inflight : DeleteStep(DeleteUserSave(o))
    \/ \E o \in Inflight : DeleteStep(DeleteUserDelete(o))

SpecDelete == Init /\ [][NextDelete]_vars

\* The admin's credit adjustments, two at a time.
AdjustRequest(A) ==
    /\ BagCardinality(ops) < MaxInflight
    /\ nreq < MaxAdjustRequests
    /\ A
    /\ nreq' = nreq + 1
    /\ UNCHANGED <<sessions, deleted, creditRequests>>

NextAdjust ==
    \/ \E u \in Users, amount \in AdjustAmounts, operation \in AdjustOperations :
          AdjustRequest(AdjustUpdate(u, amount, operation))
    \/ \E o \in Inflight : Step(AdjustClamp(o))

SpecAdjust == Init /\ [][NextAdjust]_vars

\* Provisioning on up to MaxOverVMs containers, one more than the quota,
\* and status queries on the first record.
OverRequest(A) ==
    /\ BagCardinality(ops) < MaxInflight
    /\ nreq < MaxOverRequests
    /\ A
    /\ nreq' = nreq + 1
    /\ UNCHANGED <<sessions, deleted, creditRequests>>

NextOver ==
    \/ \E u \in Callers : OverRequest(ProvisionQuota(u))
    \/ \E o \in Inflight : Step(ProvisionUser(o))
    \/ \E o \in Inflight : Step(ProvisionPortFind(o))
    \/ \E o \in Inflight : Step(ProvisionPortScan(o))
    \/ \E o \in Inflight : Len(containers) < MaxOverVMs /\ Step(ProvisionCreate(o))
    \/ \E o \in Inflight : Step(ProvisionInsert(o))
    \/ \E o \in Inflight : Step(ProvisionStart(o))
    \/ \E o \in Inflight : Step(ProvisionInspect(o))
    \/ \E o \in Inflight : Step(ProvisionSave(o))
    \/ \E u \in Callers : OverRequest(StatusFind(u, 1))
    \/ \E o \in Inflight : Step(StatusInspect(o))
    \/ \E o \in Inflight : Step(StatusSave(o))

SpecOver == Init /\ [][NextOver]_vars

(* --------------------------- credit requests --------------------------- *)
MaxCreditRequests == 3
MaxReviewRequests == 5

maxRequestAmount == 1000
minReasonLength == 10
maxPendingRequests == 3

RequestAmounts == {0, 50, 1001}
ReasonLengths == {9, 10}
ReviewActions == {"approve", "deny"}

RequestIds == 1..Len(creditRequests)

\* a handler of the credit-request routes in flight: id is the request's
\* _id (0 while it has none), request the document it holds
RequestOp(kind, pc, user, id, request, action) ==
    [kind |-> kind, pc |-> pc, user |-> user, vm |-> 0, id |-> id,
     request |-> request, action |-> action]

\* CreditRequest.countDocuments({ userId, status: 'pending' })
PendingCount(u) ==
    Cardinality({r \in RequestIds : /\ creditRequests[r].userId = u
                                    /\ creditRequests[r].status = "pending"})

\* POST /api/credits/request up to the awaited countDocuments and the
\* construction of the document (status defaults to 'pending')
SubmitCount(u, amount, reasonLength) ==
    /\ CASE amount <= 0 \/ amount > maxRequestAmount ->
              /\ resp' = Resp("submit", u, 0, "BadAmount") /\ UNCHANGED ops
         [] amount > 0 /\ amount <= maxRequestAmount
                       /\ reasonLength < minReasonLength ->
              /\ resp' = Resp("submit", u, 0, "BadReason") /\ UNCHANGED ops
         [] OTHER ->
              IF PendingCount(u) >= maxPendingRequests
              THEN /\ resp' = Resp("submit", u, 0, "TooManyPending") /\ UNCHANGED ops
              ELSE /\ ops' = Spawn(RequestOp("submit", "save", u, 0,
                                     [userId |-> u, amount |-> amount,
                                      status |-> "pending"], "none"))
                   /\ resp' = NoResp
    /\ UNCHANGED <<vms, credits, usedPorts, containers, tick, creditRequests>>

\* await request.save() of the new document
SubmitSave(o) ==
    /\ o.kind = "submit" /\ o.pc = "save"
    /\ creditRequests' = Append(creditRequests, o.request)
    /\ Return(o, "ok")
    /\ UNCHANGED <<vms, credits, usedPorts, containers, tick>>

\* PATCH /api/admin/credit-requests/:id up to the awaited findById: 404 when
\* there is none, 400 when its status is not 'pending'; otherwise the status
\* is assigned on the loaded document and save() is awaited
ReviewFind(id, action) ==
    /\ IF id \notin RequestIds
       THEN /\ resp' = Resp("review", Admin, id, "NotFound") /\ UNCHANGED ops
       ELSE IF creditRequests[id].status # "pending"
       THEN /\ resp' = Resp("review", Admin, id, "AlreadyProcessed") /\ UNCHANGED ops
       ELSE /\ ops' = Spawn(RequestOp("review", "save", Admin, id,
                              [creditRequests[id] EXCEPT
                                  !.status = IF action = "approve" THEN "approved"
                                                                   ELSE "denied"],
                              action))
            /\ resp' = NoResp
    /\ UNCHANGED <<vms, credits, usedPorts, containers, tick, creditRequests>>

\* await request.save(): the assigned status is written by _id
ReviewSave(o) ==
    /\ o.kind = "review" /\ o.pc = "save"
    /\ creditRequests' = [creditRequests EXCEPT ![o.id].status = o.request.status]
    /\ IF o.action = "approve"
       THEN Goto(o, [o EXCEPT !.pc = "credit"])
       ELSE /\ ops' = Finish(o) /\ resp' = Resp("review", Admin, o.id, "ok")
    /\ UNCHANGED <<vms, credits, usedPorts, containers, tick>>

\* await User.findByIdAndUpdate(request.userId, { $inc: { credits: amount } })
ReviewCredit(o) ==
    /\ o.kind = "review" /\ o.pc = "credit"
    /\ credits' = IF o.request.userId \in deleted
                  THEN credits
                  ELSE [credits EXCEPT ![o.request.userId] = @ + o.request.amount]
    /\ ops' = Finish(o) /\ resp' = Resp("review", Admin, o.id, "ok")
    /\ UNCHANGED <<vms, usedPorts, containers, tick, creditRequests>>

\* Users submitting credit requests and the admin reviewing them, two
\* handlers at a time.
ReviewRequest(A) ==
    /\ BagCardinality(ops) < MaxInflight
    /\ nreq < MaxReviewRequests
    /\ A
    /\ nreq' = nreq + 1
    /\ UNCHANGED <<sessions, deleted>>

ReviewStep(A) == A /\ UNCHANGED <<nreq, sessions, deleted>>

NextReview ==
    \/ \E u \in Callers, amount \in RequestAmounts, n \in ReasonLengths :
          ReviewRequest(SubmitCount(u, amount, n))
    \/ \E o \in Inflight :
          Len(creditRequests) < MaxCreditRequests /\ ReviewStep(SubmitSave(o))
    \/ \E id \in 1..MaxCreditRequests, action \in ReviewActions :
          ReviewRequest(ReviewFind(id, action))
    \/ \E o \in Inflight : ReviewStep(ReviewSave(o))
    \/ \E o \in Inflight : ReviewStep(ReviewCredit(o))

SpecReview == Init /\ [][NextReview]_vars

(* ================================ claims =============================== *)
Live(i) == vms[i].status # "terminated"

\* C1: in every reachable state no two VM records whose status is not
\* `terminated` hold the same port, for any interleaving of provision,
\* terminate and adminForceRemove.
C1_LivePortsUnique ==
    \A i, j \in VMIds : (i # j /\ Live(i) /\ Live(j)) => vms[i].sshPort # vms[j].sshPort

\* two live records beside a terminated one
C1_Witness ==
    \E i, j, k \in VMIds : /\ i # j /\ Live(i) /\ Live(j)
                           /\ ~Live(k)

\* the final save of start, stop, terminate, statusQuery, adminForceStop or
\* adminForceRemove
LifecycleSave(o) ==
    \/ StartSave(o) \/ StopSave(o) \/ TerminateSave(o) \/ StatusSave(o)
    \/ ForceStopSave(o) \/ ForceRemoveSave(o)

\* C2: once a record's status is `terminated` it stays `terminated`: no
\* write of a start, stop, terminate, statusQuery, adminForceStop or
\* adminForceRemove, running later or concurrently, changes it.
C2_TerminatedIsPermanent ==
    [][\A o \in Inflight :
          LifecycleSave(o) =>
             \A i \in VMIds : vms[i].status = "terminated"
                                 => vms'[i].status = "terminated"]_vars

\* C3: a user's credit balance is never negative.
C3_BalanceNeverNegative == \A u \in Users : credits[u] >= 0

\* C4: a running->stopped transition is billed once: a stop debits the owner
\* only while the record is still running and no other stop of the same
\* running interval has already debited.
C4_BilledOnce ==
    [][\A o \in Inflight :
          (StopBill(o) /\ o.creditsUsed > 0) =>
             /\ vms[o.vm].status = "running"
             /\ ~\E p \in Inflight : /\ p.kind = "stop" /\ p.vm = o.vm /\ p.pc = "save"
                                     /\ p.doc.lastStartedAt = o.doc.lastStartedAt
                                     /\ p.creditsUsed > 0]_vars

\* the status a lifecycle operation requires of the record it reads
Precondition(kind, status) ==
    CASE kind = "start"  -> status \notin {"running", "terminated"}
      [] kind = "stop"   -> status = "running"
      [] kind = "status" -> status # "terminated"
      [] OTHER           -> TRUE

\* C5: a lifecycle operation (start, stop, terminate, statusQuery) writes its
\* status transition only if the persisted status still satisfies, at write
\* time, the precondition of the operation; otherwise it leaves the record
\* as it is.
C5_WriteChecksPrecondition ==
    [][\A o \in Inflight :
          (StartSave(o) \/ StopSave(o) \/ TerminateSave(o) \/ StatusSave(o)) =>
             \/ Precondition(o.kind, vms[o.vm].status)
             \/ vms' = vms]_vars

\* C6: totalRuntime and creditsConsumed of a record never decrease.
C6_AccumulatorsMonotone ==
    [][\A i \in VMIds : /\ vms'[i].totalRuntime >= vms[i].totalRuntime
                        /\ vms'[i].creditsConsumed >= vms[i].creditsConsumed]_vars

\* C7: on a stop, with elapsed the seconds between lastStartedAt and the
\* moment the runtime stop call returned, the balance is debited by
\* ceil(elapsed * vmCostPerHour / 3600), and the stop's write makes the
\* record's totalRuntime grow by elapsed and its creditsConsumed by the same
\* charge.
C7_StopCharges ==
    [][\A o \in Inflight :
          LET elapsed == o.upd.totalRuntime - o.doc.totalRuntime
              charge  == (elapsed * vmCostPerHour + 3599) \div 3600
          IN /\ StopStop(o) =>
                   \A n \in BagToSet(ops') \ Inflight :
                      n.pc = "bill" => n.upd.totalRuntime - n.doc.totalRuntime
                                          = now - o.doc.lastStartedAt
             /\ StopBill(o) => credits'[o.user] = credits[o.user] - charge
             /\ (StopSave(o) /\ o.doc.lastStartedAt # NoDate) =>
                   /\ vms'[o.vm].totalRuntime = vms[o.vm].totalRuntime + elapsed
                   /\ vms'[o.vm].creditsConsumed = vms[o.vm].creditsConsumed + charge]_vars

\* C8: terminate on an existing record always reports success and leaves the
\* record `terminated`; its only failure is NotFound.
C8_TerminateAlwaysTerminates ==
    [][/\ \A o \in Inflight :
             TerminateSave(o) => /\ resp' = Resp("terminate", o.user, o.vm, "ok")
                                 /\ vms'[o.vm].status = "terminated"
       /\ resp'.op = "terminate" => resp'.res \in {"ok", "NotFound"}
       /\ \A u \in Callers, v \in VMIds :
             (TerminateFind(u, v) /\ vms[v].ownerId = u) => resp'.res # "NotFound"]_vars

\* records of an owner whose status is not `terminated`
NonTerminatedCount(u) ==
    Cardinality({i \in VMIds : vms[i].ownerId = u /\ vms[i].status # "terminated"})

\* C9: provision fails with QuotaExceeded, reserving no port and creating no
\* container and no record, whenever the owner already has maxVMsPerUser
\* records that are not `terminated`.
C9_QuotaExceeded ==
    [][\A u \in Callers :
          (NonTerminatedCount(u) >= maxVMsPerUser /\ ProvisionQuota(u)) =>
             /\ resp' = Resp("provision", u, 0, "QuotaExceeded")
             /\ UNCHANGED <<vms, usedPorts, containers>>]_vars

\* C10: provision and start fail with InsufficientCredits whenever the
\* owner's balance is below vmCostPerHour and the checks that come first
\* pass (provision: the owner is below the quota; start: the record exists,
\* is the caller's, and is neither running nor terminated); no port is
\* reserved, no Docker call is made, and no record is created or modified.
C10_InsufficientCredits ==
    [][/\ \A u \in Callers :
             (credits[u] < vmCostPerHour /\ ProvisionQuota(u)
                 /\ QuotaCount(u) < maxVMsPerUser)
             => /\ UNCHANGED <<vms, usedPorts, containers>>
                /\ \E o \in BagToSet(ops') : /\ o.kind = "provision" /\ o.pc = "user"
                                             /\ o.user = u /\ o.port = 0
       /\ \A o \in Inflight :
             ((ProvisionUser(o) \/ StartUser(o)) /\ credits[o.user] < vmCostPerHour)
             => /\ resp' = Resp(o.kind, o.user, o.vm, "InsufficientCredits")
                /\ o.port = 0
                /\ UNCHANGED <<vms, usedPorts, containers>>]_vars

\* a start of a stopped record refused for lack of credits
C10_Witness ==
    /\ resp.op = "start" /\ resp.res = "InsufficientCredits"
    /\ vms[resp.vm].status = "stopped"
    /\ credits[resp.user] < vmCostPerHour

\* C10 as first stated: whenever the balance is below vmCostPerHour, a
\* provision or start fails with InsufficientCredits and with nothing else.
C10_AsStated ==
    [][\A u \in Callers :
          credits[u] < vmCostPerHour =>
             /\ ProvisionQuota(u) => resp'.res = "none"
             /\ \A v \in Targets : StartFind(u, v) => resp'.res = "none"
             /\ \A o \in Inflight :
                   (o.user = u /\ (ProvisionUser(o) \/ StartUser(o)))
                   => resp'.res = "InsufficientCredits"]_vars
\* C11: stop on a record whose status is `stopped`, `creating` or
\* `terminated` fails with InvalidState, and so does start on a `terminated`
\* record; no Docker call is made, no operation stays in flight, and records,
\* balances, ports and containers are unchanged.
C11_IllegalTransitionsRefused ==
    [][\A u \in Callers, v \in VMIds :
          vms[v].ownerId = u =>
             /\ (StopFind(u, v) /\ vms[v].status \in {"stopped", "creating", "terminated"})
                => /\ resp' = Resp("stop", u, v, "InvalidState")
                   /\ UNCHANGED <<vms, credits, usedPorts, containers, ops>>
             /\ (StartFind(u, v) /\ vms[v].status = "terminated")
                => /\ resp' = Resp("start", u, v, "InvalidState")
                   /\ UNCHANGED <<vms, credits, usedPorts, containers, ops>>]_vars

\* a stop of a terminated record has just been refused
C11_Witness ==
    /\ resp.op = "stop" /\ resp.res = "InvalidState"
    /\ vms[resp.vm].status = "terminated"

\* C12: a port that no non-terminated record holds is assignable: a
\* provision that was handed such a port persists a record that carries it.
C12_FreedPortAssignable ==
    [][\A o \in Inflight :
          (ProvisionInsert(o) /\ o.port \notin LivePorts) =>
             /\ Len(vms') = Len(vms) + 1
             /\ vms'[Len(vms')].sshPort = o.port]_vars

\* a provision that has been handed a port and has not persisted its record
Reserving(o) == o.kind = "provision" /\ o.pc \in {"create", "insert"}

\* C13: two provisions that are both between their reservation and the
\* persisting of their record never hold the same port.
C13_ConcurrentReservationsDiffer ==
    /\ \A o \in Inflight : Reserving(o) => ops[o] = 1
    /\ \A o, p \in Inflight : (o # p /\ Reserving(o) /\ Reserving(p)) => o.port # p.port

\* C14: when a VM has been terminated (by terminate or adminForceRemove) and
\* that operation has returned, no terminal session that references the VM
\* is still open: none is in the session table with its channel and its
\* stream open.
C14_TerminatedVMHasNoSession ==
    \A c \in ConnIds :
       LET s == sessions[c]
       IN (/\ s.pc = "done" /\ vms[s.vm].status = "terminated"
           /\ ~\E o \in Inflight : o.kind \in {"terminate", "forceRemove"})
          => ~(s.entry /\ s.ws = "open" /\ s.stream = "open")

\* C15: channel close, stream end and stream error each tear the session
\* down.  Once the attach is no longer in progress: a session whose channel
\* is closed or whose stream failed has its entry removed and holds no open
\* stream, and a session whose stream ended has its channel closing or
\* closed.
C15_EventsTearDown ==
    \A c \in ConnIds :
       LET s == sessions[c]
       IN s.pc \in {"done", "failed"} =>
             /\ (s.ws = "closed" \/ s.stream = "errored")
                   => (~s.entry /\ s.stream # "open")
             /\ s.stream = "ended" => s.ws # "open"

\* C16: when a terminal connection targets a VM that does not exist, is not
\* the caller's, or is not running, the attach fails at its check: the
\* server sends one error frame (none if the client has already closed the
\* channel), closes the channel, opens no stream and removes the entry; a
\* connection whose attach failed never has an entry or a stream again.
C16_AttachRefused ==
    /\ [](\A c \in ConnIds :
             sessions[c].pc = "failed" =>
                /\ ~sessions[c].entry /\ sessions[c].stream = "none"
                /\ sessions[c].ws # "open" /\ sessions[c].errors <= 1)
    /\ [][\A c \in ConnIds :
             LET s == sessions[c]
             IN (/\ TermFind(c)
                 /\ \/ s.vm \notin VMIds
                    \/ vms[s.vm].ownerId # s.user
                    \/ vms[s.vm].status # "running")
                => /\ sessions'[c].pc = "failed"
                   /\ ~sessions'[c].entry
                   /\ sessions'[c].stream = "none"
                   /\ sessions'[c].ws # "open"
                   /\ sessions'[c].errors = IF s.ws = "open" THEN 1 ELSE 0]_vars

\* a connection to the caller's terminated VM has been refused with one
\* error frame
C16_Witness ==
    \E c \in ConnIds :
       LET s == sessions[c]
       IN /\ s.pc = "failed" /\ s.errors = 1 /\ s.ws = "closing"
          /\ s.vm \in VMIds /\ vms[s.vm].ownerId = s.user
          /\ vms[s.vm].status = "terminated"

\* C17: every ping a client sends on an open terminal channel is answered
\* with exactly one pong, and the server never sends a pong without a ping
\* before it.
C17_PingPong ==
    /\ [](\A c \in ConnIds : sessions[c].pongs <= sessions[c].pings)
    /\ [][\A c \in ConnIds :
             ClientPing(c) => sessions'[c].pongs = sessions[c].pongs + 1]_vars

\* C18: start called on a record whose status is creating, running, error or
\* terminated fails with InvalidState and changes nothing.
C18_StartOnlyFromStopped ==
    [][\A u \in Callers, v \in VMIds :
         (/\ vms[v].ownerId = u
          /\ vms[v].status \in {"creating", "running", "error", "terminated"}
          /\ StartFind(u, v))
         => /\ resp' = Resp("start", u, v, "InvalidState")
            /\ UNCHANGED <<vms, credits, usedPorts, containers, ops>>]_vars

\* C19: when a step of provision after the port was reserved fails (runtime
\* create, the insert, runtime start or inspect), the port it reserved is
\* released and no live record of it remains, in particular none in
\* creating.
C19_FailedProvisionCleansUp ==
    [][\A o \in Inflight :
         (/\ \/ ProvisionCreate(o) \/ ProvisionInsert(o)
             \/ ProvisionStart(o) \/ ProvisionInspect(o)
          /\ resp'.op = "provision"
          /\ resp'.res \in {"RuntimeError", "DuplicateKey"})
         => /\ o.port \notin usedPorts'
            /\ \A v \in DOMAIN vms' :
                  (vms'[v].containerId = o.cid /\ o.cid # 0)
                  => vms'[v].status = "terminated"]_vars

\* the step of terminate in which freePort runs
TerminateReleases(o) ==
    /\ o.kind = "terminate"
    /\ \/ TerminateInspect(o) \/ TerminateStop(o) \/ TerminateRemove(o)
    /\ ops' = Replace(o, [o EXCEPT !.pc = "save",
                                   !.upd = [o.doc EXCEPT !.status = "terminated"]])

\* the step of adminForceRemove in which freePort runs
ForceRemoveReleases(o) ==
    /\ o.kind = "forceRemove"
    /\ ForceRemoveFind(o)
    /\ FindByContainer(o.cid) # 0

\* releasing the port of record v is in order: the record is not terminated
\* yet, no other operation has already released for it, and nobody else
\* holds the port
ReleaseInOrder(v, port) ==
    /\ vms[v].status # "terminated"
    /\ ~\E p \in Inflight : /\ p.kind \in {"terminate", "forceRemove"}
                            /\ p.pc = "save" /\ p.vm = v
    /\ \A w \in VMIds \ {v} : vms[w].sshPort = port => vms[w].status = "terminated"
    /\ ~\E p \in Inflight : Reserving(p) /\ p.port = port

\* C20: a reserved port is released once, at the termination of the VM that
\* holds it: terminate or adminForceRemove on an already terminated record
\* releases nothing, and a release never frees a port that another live
\* record or a provision in flight holds.
C20_ReleasedOnce ==
    [][\A o \in Inflight :
         /\ TerminateReleases(o) => ReleaseInOrder(o.vm, o.doc.sshPort)
         /\ ForceRemoveReleases(o)
            => ReleaseInOrder(FindByContainer(o.cid), vms[FindByContainer(o.cid)].sshPort)]_vars

\* C21: adminForceStop on the container of a running VM updates the record
\* as stop would: status stopped, lastStoppedAt stamped, totalRuntime and
\* creditsConsumed increased for the interval since lastStartedAt.
C21_ForceStopAsStop ==
    [][\A o \in Inflight :
         (/\ ForceStopSave(o)
          /\ vms[o.vm] = o.doc
          /\ o.doc.status = "running"
          /\ o.doc.lastStartedAt # NoDate)
         => LET runtime == o.upd.lastStoppedAt - o.doc.lastStartedAt
            IN /\ vms'[o.vm].status = "stopped"
               /\ vms'[o.vm].lastStoppedAt = o.upd.lastStoppedAt
               /\ vms'[o.vm].totalRuntime = o.doc.totalRuntime + runtime
               /\ vms'[o.vm].creditsConsumed
                     = o.doc.creditsConsumed + CreditsUsed(runtime)]_vars

\* what a refused request leaves alone
Untouched == UNCHANGED <<vms, credits, usedPorts, containers, ops>>

\* C22: start, stop, terminate, statusQuery and exec called by a user who is
\* not the record's owner answer NotFound and change neither the record,
\* the container, the reserved ports nor any balance; a terminal attach by
\* such a user fails the same way; and no step changes a record's ownerId.
C22_OwnerOnly ==
    /\ [][\A u \in Users, v \in VMIds :
             vms[v].ownerId # u =>
                /\ StartFind(u, v)
                   => resp' = Resp("start", u, v, "NotFound") /\ Untouched
                /\ StopFind(u, v)
                   => resp' = Resp("stop", u, v, "NotFound") /\ Untouched
                /\ TerminateFind(u, v)
                   => resp' = Resp("terminate", u, v, "NotFound") /\ Untouched
                /\ StatusFind(u, v)
                   => resp' = Resp("status", u, v, "NotFound") /\ Untouched
                /\ ExecFind(u, v)
                   => resp' = Resp("exec", u, v, "NotFound") /\ Untouched]_vars
    /\ [][\A c \in ConnIds :
             (/\ TermFind(c)
              /\ sessions[c].vm \in VMIds
              /\ vms[sessions[c].vm].ownerId # sessions[c].user)
             => /\ sessions'[c].pc = "failed"
                /\ sessions'[c].stream = "none"
                /\ Untouched]_vars
    /\ [][/\ Len(vms') >= Len(vms)
          /\ \A v \in VMIds : vms'[v].ownerId = vms[v].ownerId]_vars

\* another user's stop of a running VM has been answered NotFound
C22_Witness ==
    /\ resp = Resp("stop", "u2", 1, "NotFound")
    /\ Len(vms) = 1
    /\ vms[1].ownerId = "u1"
    /\ vms[1].status = "running"

\* C23: an entry whose channel is closed is eventually removed from the
\* table by the sweep, whether or not a close handler ran for it, and the
\* sweep never removes an entry whose channel is not closed.
C23_SweepRemovesClosed ==
    /\ \A c \in ConnIds :
          (sessions[c].entry /\ sessions[c].ws = "closed") ~> ~sessions[c].entry
    /\ [][TermSweep =>
            \A c \in ConnIds :
               (sessions[c].entry /\ sessions[c].ws # "closed") => sessions'[c].entry]_vars

\* the sweep has removed the entry of a connection that was closed during
\* its attach: no close handler ran, the stream is still open
C23_Witness ==
    \E c \in ConnIds :
       /\ sessions[c].pc = "done" /\ sessions[c].ws = "closed"
       /\ sessions[c].stream = "open" /\ ~sessions[c].entry

\* a range of PortRange ports from the lower bound
RangePorts == baseSSHPort .. (baseSSHPort + PortRange - 1)

\* C24: when every port of the range is held by a non-terminated record,
\* the reservation fails with ExhaustedError and provision ends there: no
\* port is reserved, no container and no record is created.
C24_ExhaustedError ==
    [][\A o \in Inflight :
         (/\ ProvisionPortScan(o)
          /\ \A p \in RangePorts : \E v \in VMIds : Live(v) /\ vms[v].sshPort = p)
         => /\ resp' = Resp("provision", o.user, 0, "ExhaustedError")
            /\ ops' = Finish(o)
            /\ UNCHANGED <<vms, containers, usedPorts>>]_vars

\* C25: once the admin has deleted a user, every VM record of that user is
\* terminated and its port is not reserved, a VM whose provision was in
\* flight during the deletion included.
C25_DeletedUserHasNoVM ==
    \A u \in deleted :
       \A v \in VMIds :
          vms[v].ownerId = u
          => vms[v].status = "terminated" /\ vms[v].sshPort \notin usedPorts

\* the edges of the lifecycle
Edges ==
    {<<"creating", "running">>, <<"running", "stopped">>, <<"stopped", "running">>,
     <<"running", "error">>, <<"stopped", "error">>}
    \cup {<<st, "terminated">> : st \in {"creating", "running", "stopped", "error"}}

\* C26: every change of a record's status follows one of the edges
\* creating->running, running->stopped, stopped->running, running->error,
\* stopped->error, or non-terminated->terminated.
C26_StatusEdges ==
    [][\A v \in VMIds :
         vms'[v].status # vms[v].status
         => <<vms[v].status, vms'[v].status>> \in Edges]_vars

\* the operation has failed with a runtime error and has written nothing
FailedClean(o) ==
    /\ resp' = Resp(o.kind, o.user, o.vm, "RuntimeError")
    /\ ops' = Finish(o)
    /\ UNCHANGED <<vms, credits>>

\* C27: start on a container that is already running and stop on one that
\* is already stopped go on as after a successful call, through the billing
\* (for stop) to the save that sets the new status; a runtime call that
\* failed otherwise ends the operation with the record and the balance
\* unchanged.
C27_AlreadyInStateIsSuccess ==
    [][\A o \in Inflight :
         /\ (/\ StartStart(o)
             /\ ContainerState(o.cid) # "running"
             /\ containers'[o.cid] # "running") => FailedClean(o)
         /\ (/\ StopStop(o)
             /\ ContainerState(o.cid) # "stopped"
             /\ containers'[o.cid] # "stopped") => FailedClean(o)
         /\ (/\ StartStart(o) \/ StartInspect(o) \/ StopStop(o)
             /\ resp'.res = "RuntimeError") => FailedClean(o)
         /\ (StartStart(o) /\ resp' = NoResp)
            => ops' = Replace(o, [o EXCEPT !.pc = "inspect"])
         /\ (StopStop(o) /\ resp' = NoResp /\ o.doc.lastStartedAt # NoDate)
            => \E o2 \in BagToSet(ops') :
                  /\ ops' = Replace(o, o2)
                  /\ o2.pc = "bill"
                  /\ o2.creditsUsed = CreditsUsed(now - o.doc.lastStartedAt)
         /\ StartSave(o) => vms'[o.vm].status = "running"
         /\ StopSave(o) => vms'[o.vm].status = "stopped"]_vars

\* two stops of the same running VM have both passed container.stop(): for
\* one of them the container was already stopped
C27_Witness ==
    \E o \in Inflight :
       /\ o.kind = "stop" /\ o.pc = "bill" /\ ops[o] = 2
       /\ ContainerState(o.cid) = "stopped"

\* C28: a stopped record with both timestamps has lastStartedAt <=
\* lastStoppedAt, and a running record has a lastStartedAt that is set and
\* not earlier than its lastStoppedAt, if it has one.
C28_TimestampsBoundInterval ==
    \A v \in VMIds :
       /\ (/\ vms[v].status = "stopped"
           /\ vms[v].lastStartedAt # NoDate
           /\ vms[v].lastStoppedAt # NoDate)
          => vms[v].lastStartedAt <= vms[v].lastStoppedAt
       /\ vms[v].status = "running"
          => /\ vms[v].lastStartedAt # NoDate
             /\ vms[v].lastStoppedAt # NoDate
                => vms[v].lastStartedAt >= vms[v].lastStoppedAt

\* a step of provision
ProvisionStep(o) ==
    \/ ProvisionUser(o) \/ ProvisionPortFind(o) \/ ProvisionPortScan(o)
    \/ ProvisionCreate(o) \/ ProvisionInsert(o) \/ ProvisionStart(o)
    \/ ProvisionInspect(o) \/ ProvisionSave(o)

\* C29: provision inserts its record as creating with the one port it
\* reserved and both accumulators 0; when it succeeds the record is running
\* with lastStartedAt stamped, the same port and both accumulators still 0;
\* and no step of provision changes a balance.
C29_ProvisionEffect ==
    [][\A o \in Inflight :
         /\ (ProvisionInsert(o) /\ resp' = NoResp)
            => /\ Len(vms') = Len(vms) + 1
               /\ vms'[Len(vms')] = NewVM(o)
         /\ ProvisionSave(o)
            => /\ resp' = Resp("provision", o.user, o.vm, "ok")
               /\ vms'[o.vm].status = "running"
               /\ vms'[o.vm].lastStartedAt # NoDate
               /\ vms'[o.vm].sshPort = o.port
               /\ vms'[o.vm].totalRuntime = 0
               /\ vms'[o.vm].creditsConsumed = 0
         /\ ProvisionStep(o) => UNCHANGED credits]_vars

\* the ports held by a non-terminated record or by a provision in flight
\* that has not inserted its record yet
HeldPorts == LivePorts \cup {p.port : p \in {q \in Inflight : Reserving(q)}}

\* the lowest port from the lower bound up that nobody holds
LowestFree ==
    CHOOSE p \in baseSSHPort .. (baseSSHPort + Cardinality(HeldPorts)) :
       /\ p \notin HeldPorts
       /\ \A q \in baseSSHPort .. (p - 1) : q \in HeldPorts

\* C30: the reservation returns the lowest port at or above the lower bound
\* that no non-terminated record (and no provision in flight) holds,
\* whatever provisions (successful or failed) and terminations came before.
C30_LowestFreePort ==
    [][\A o \in Inflight :
         ProvisionPortScan(o)
         => ops' = Replace(o, [o EXCEPT !.pc = "create", !.port = LowestFree,
                                        !.seen = {}])]_vars

\* C31: when the stream of an attached session ends while the channel is
\* open, the server sends one `disconnect` frame and closes the channel; no
\* session ever gets a second `disconnect` frame, and after the
\* `disconnect` frame no frame of any type is sent on the channel.
C31_DisconnectIsLast ==
    /\ [](\A c \in ConnIds :
             /\ sessions[c].disconnects <= 1
             /\ ~sessions[c].late
             /\ sessions[c].disconnects = 1 => sessions[c].ws # "open")
    /\ [][\A c \in ConnIds :
             (StreamEnd(c) /\ sessions[c].ws = "open")
             => /\ sessions'[c].disconnects = sessions[c].disconnects + 1
                /\ sessions'[c].ws = "closing"]_vars

\* the stream ended after output was sent; the `disconnect` frame went out,
\* a ping sent meanwhile is unanswered, and the channel is closed
C31_Witness ==
    \E c \in ConnIds :
       /\ sessions[c].disconnects = 1 /\ sessions[c].outputs = 1
       /\ sessions[c].pings = 1 /\ sessions[c].pongs = 0
       /\ sessions[c].ws = "closed"

\* C32: an admin's removal never makes a negative balance visible, and the
\* step that brings the balance back to 0 loses nothing that was added
\* meanwhile: it leaves max(0, balance).
C32_RemovalClampsAtomically ==
    /\ [](\A u \in Users : credits[u] >= 0)
    /\ [][\A o \in Inflight :
             AdjustClamp(o)
             => credits'[o.user] = IF credits[o.user] < 0 THEN 0 ELSE credits[o.user]]_vars

\* C33: for every owner the number of records that are not terminated
\* never exceeds the quota, whatever the interleaving of that owner's
\* provisions and of status queries.
C33_QuotaNeverExceeded ==
    \A u \in Users : NonTerminatedCount(u) <= maxVMsPerUser

\* C34: no running time is billed twice: the seconds billed for a VM never
\* exceed the time it spent running, which is at most the time that has
\* passed since the clock started.
C34_NoTimeBilledTwice ==
    \A v \in VMIds : vms[v].totalRuntime <= now

RECURSIVE SumConsumed(_, _)
SumConsumed(u, n) ==
    IF n = 0 THEN 0
    ELSE SumConsumed(u, n - 1)
         + (IF vms[n].ownerId = u THEN vms[n].creditsConsumed ELSE 0)

Debited(u) == defaultCredits - credits[u]

\* C35: billing records and debits agree: whenever no operation is in
\* flight, the amount debited from each owner's balance equals the sum of
\* creditsConsumed over that owner's VM records.
C35_DebitsMatchRecords ==
    ops = EmptyBag => \A u \in Users : Debited(u) = SumConsumed(u, Len(vms))

\* a step of terminate, adminForceStop, adminForceRemove or statusQuery
NonBillingStep ==
    \/ \E u \in Callers, v \in Targets : TerminateFind(u, v) \/ StatusFind(u, v)
    \/ \E cid \in Targets : ForceStopStop(cid) \/ ForceRemoveRemove(cid)
    \/ \E o \in Inflight :
          \/ TerminateInspect(o) \/ TerminateStop(o) \/ TerminateRemove(o)
          \/ TerminateSave(o)
          \/ StatusInspect(o) \/ StatusSave(o)
          \/ ForceStopFind(o) \/ ForceStopSave(o)
          \/ ForceRemoveFind(o) \/ ForceRemoveSave(o)

BillingUnchanged ==
    /\ credits' = credits
    /\ \A v \in VMIds : /\ vms'[v].totalRuntime = vms[v].totalRuntime
                        /\ vms'[v].creditsConsumed = vms[v].creditsConsumed

\* C36: terminate, adminForceStop, adminForceRemove and statusQuery leave
\* every balance and every record's totalRuntime and creditsConsumed
\* unchanged; a step that changes one of them is a step of a stop.
C36_OnlyStopBills ==
    [][/\ NonBillingStep => BillingUnchanged
       /\ ~BillingUnchanged => \E o \in Inflight : StopBill(o) \/ StopSave(o)]_vars

\* a VM billed once for 1800 s, started again and terminated while running
\* 10 s later keeps the totals and the balance of the one stop
C36_Witness ==
    /\ resp = Resp("terminate", "u1", 1, "ok")
    /\ vms[1].status = "terminated" /\ vms[1].lastStartedAt = 1800
    /\ now >= 1810 /\ containers[1] = "gone"
    /\ vms[1].totalRuntime = 1800 /\ vms[1].creditsConsumed = 5
    /\ credits["u1"] = 95

RECURSIVE SumApproved(_, _)
SumApproved(u, n) ==
    IF n = 0 THEN 0
    ELSE SumApproved(u, n - 1)
         + (IF creditRequests[n].userId = u /\ creditRequests[n].status = "approved"
            THEN creditRequests[n].amount ELSE 0)

\* C37: a credit request leaves `pending` at most once and its amount is
\* added at most once: a review saves its decision only on a request that is
\* still pending, a user's balance never exceeds the initial balance plus
\* the amounts of the user's approved requests, and a review of a request
\* already approved or denied is rejected and changes no balance.
C37_ProcessedOnce ==
    /\ [](\A u \in Users : credits[u] <= defaultCredits + SumApproved(u, Len(creditRequests)))
    /\ [][/\ \A o \in Inflight :
               ReviewSave(o) => creditRequests[o.id].status = "pending"
          /\ \A id \in RequestIds, action \in ReviewActions :
               (ReviewFind(id, action) /\ creditRequests[id].status # "pending")
                   => /\ resp' = Resp("review", Admin, id, "AlreadyProcessed")
                      /\ UNCHANGED <<credits, creditRequests, ops>>]_vars
====
